---- MODULE Spec2Model ----
(***************************************************************************)
(* GenAILiveClient (src/unnamed/part_000): the streaming session client.   *)
(* The client's fields are the state; every entry point that the event     *)
(* loop can run (caller commands, transport callbacks, timer callbacks,    *)
(* the two continuations of the awaited transport open) is one action.     *)
(* JavaScript runs each of them to completion, so each is atomic; the only *)
(* suspension point is the await of client.live.connect in connect().      *)
(***************************************************************************)
EXTENDS Integers, Sequences, FiniteSets, TLC

VARIABLES
    status,                \* _status
    session,               \* _session: null, or the Session the last resolved open returned
    model,                 \* _model ("null" before the first connect)
    config,                \* config ("null" before the first connect)
    resumptionHandle,      \* resumptionHandle ("null" when not set)
    autoReconnectEnabled,  \* autoReconnectEnabled
    reconnectAttempts,     \* reconnectAttempts
    opening,               \* transport opens awaited by a connect(), counted per caller
    leaked,                \* number of open sessions the client no longer references
    closing,               \* number of sessions closed by session.close(), callback pending
    backoffTimers,         \* pending setTimeout callbacks set by scheduleReconnect
    goAwayTimers,          \* pending setTimeout callbacks set by the GoAway handler
    manual,                \* history: disconnect() returned true, no caller connect since
    exhausted,             \* history since the last resolved open: "disabled" once
                           \* scheduleReconnect gave up, "reenabled" once
                           \* setAutoReconnect(true) followed, else "no"
    out                    \* what the last handler did: return value, emits, logs, opens, timers

vars == <<status, session, model, config, resumptionHandle, autoReconnectEnabled,
          reconnectAttempts, opening, leaked, closing, backoffTimers, goAwayTimers,
          manual, exhausted, out>>

clientVars == <<status, session, model, config, resumptionHandle,
                autoReconnectEnabled, reconnectAttempts>>

(***************************************************************************)
(* Bounds of the model and constants of the program.                       *)
(***************************************************************************)
MaxSessions == 2          \* transport opens and sessions outstanding at once
MaxSessionsWide == 3      \* the same, under SpecWide
MaxBackoffTimers == 2     \* pending scheduleReconnect timers
MaxGoAwayTimers == 1      \* pending GoAway timers

maxReconnectAttempts == 5
reconnectDelay == 1000
NormalClosure == 1000
GoAwayLead == 1000

\* The (model, config) pairs the caller connects with.
Identities == {<<"m1", "c1">>, <<"m2", "c2">>}
Handles == {"h1", "h2"}
CloseCodes == {NormalClosure, 1006}
Errors == {"e1", "e2"}

Null == "null"
Callers == {"caller", "backoff", "goaway"}

(***************************************************************************)
(* Outputs of one handler run.                                             *)
(***************************************************************************)
Ev(type, data) == [type |-> type, data |-> data]

Out(op, by, ret, events, logs, opened, sched, sent, code) ==
    [op |-> op, by |-> by, ret |-> ret, events |-> events, logs |-> logs,
     opened |-> opened, sched |-> sched, sent |-> sent, code |-> code]

Quiet(op, by, ret) == Out(op, by, ret, <<>>, <<>>, <<>>, <<>>, <<>>, 0)

(***************************************************************************)
(* scheduleReconnect                                                       *)
(***************************************************************************)
\* Faulty variant: the delay is computed from the counter after its increment.
BackoffDelayAfterIncrement(attempts) == reconnectDelay * (2 ^ (attempts + 1))

BackoffDelay(attempts) == reconnectDelay * (2 ^ attempts)

\* Faulty variant: the budget is one attempt too large.
ScheduleExhaustedLate(attempts) == attempts > maxReconnectAttempts

ScheduleExhausted(attempts) == attempts >= maxReconnectAttempts

\* Faulty variant: the attempt is scheduled but not counted.
ScheduleReconnectKeepsCount(enabled, attempts) ==
    IF ScheduleExhausted(attempts)
    THEN [enabled |-> FALSE, attempts |-> attempts, sched |-> <<>>]
    ELSE [enabled |-> enabled, attempts |-> attempts,
          sched |-> <<[kind |-> "backoff", delay |-> BackoffDelay(attempts)]>>]

\* The fields scheduleReconnect leaves behind and the timer it sets (if any).
ScheduleReconnect(enabled, attempts) ==
    IF ScheduleExhausted(attempts)
    THEN [enabled |-> FALSE, attempts |-> attempts, sched |-> <<>>]
    ELSE [enabled |-> enabled, attempts |-> attempts + 1,
          sched |-> <<[kind |-> "backoff", delay |-> BackoffDelay(attempts)]>>]

NoSchedule(enabled, attempts) ==
    [enabled |-> enabled, attempts |-> attempts, sched |-> <<>>]

\* The history of exhaustion after a handler that may have called
\* scheduleReconnect: `enabledAfter` is the flag it leaves, `abnormal` whether
\* the handler was an abnormal closure (the one a re-enabling waits for).
ExhaustedAfter(enabledAfter, abnormal) ==
    IF autoReconnectEnabled /\ ~enabledAfter THEN "disabled"
    ELSE IF exhausted = "reenabled" /\ abnormal THEN "no"
    ELSE exhausted

(***************************************************************************)
(* The transport. Sessions are opaque to the client, which keeps at most   *)
(* one reference (_session); the model counts them by what the client can  *)
(* still do with them.                                                     *)
(***************************************************************************)
Held == "held"
NoSession == "null"

HeldCount(s) == IF s = Held THEN 1 ELSE 0

\* Transport sessions opened and not closed.
LiveSessions == HeldCount(session) + leaked

OpeningCount == opening["caller"] + opening["backoff"] + opening["goaway"]

Outstanding == OpeningCount + LiveSessions + closing

(***************************************************************************)
(* connect                                                                 *)
(***************************************************************************)
\* Weakened variant: the guard forgets the session that is established.
ConnectRejectsConnectingOnly(st) == st = "connecting"

\* Weakened variant: the guard forgets the connect that is still in flight.
ConnectRejectsConnectedOnly(st) == st = "connected"

ConnectRejects(st) == st = "connected" \/ st = "connecting"

\* Faulty variant: the stored handle is not passed on.
EnhancedConfigWithoutHandle(cfg, handle) ==
    [config |-> cfg,
     sessionResumption |-> "undefined",
     contextWindowCompression |-> "slidingWindow"]

\* enhancedConfig: the caller's config plus the stored handle, if there is one.
EnhancedConfig(cfg, handle) ==
    [config |-> cfg,
     sessionResumption |-> IF handle # Null THEN handle ELSE "undefined",
     contextWindowCompression |-> "slidingWindow"]

\* Faulty variant: the open always names the first model.
OpenRequestFirstModel(by, m, cfg, handle) ==
    [by |-> by, model |-> "m1", config |-> EnhancedConfig(cfg, handle)]

\* The argument of client.live.connect.
OpenRequest(by, m, cfg, handle) ==
    [by |-> by, model |-> m, config |-> EnhancedConfig(cfg, handle)]

\* connect(m, cfg) up to the await; `by` is who called it, `cap` the number of
\* sessions the transport serves at once in this run.
ConnectCall(by, m, cfg, op, cap) ==
    IF ConnectRejects(status)
    THEN /\ out' = Quiet(op, by, "false")
         /\ UNCHANGED <<status, session, model, config, resumptionHandle,
                        autoReconnectEnabled, reconnectAttempts,
                        opening, leaked, closing>>
    ELSE /\ Outstanding < cap
         /\ status' = "connecting"
         /\ config' = cfg
         /\ model' = m
         /\ opening' = [opening EXCEPT ![by] = @ + 1]
         /\ out' = Out(op, by, "pending", <<>>, <<>>,
                       <<OpenRequest(by, m, cfg, resumptionHandle)>>, <<>>, <<>>, 0)
         /\ UNCHANGED <<session, resumptionHandle, autoReconnectEnabled,
                        reconnectAttempts, leaked, closing>>

\* The caller's connect(model, config).
Connect(m, cfg, cap) ==
    /\ ConnectCall("caller", m, cfg, "connect", cap)
    /\ manual' = IF ConnectRejects(status) THEN manual ELSE FALSE
    /\ UNCHANGED <<backoffTimers, goAwayTimers, exhausted>>

\* Faulty variant: a reconnection announces nothing.
ReconnectedEventsNone(by) == <<>>

\* What attemptReconnection emits after its connect returned true.
ReconnectedEvents(by) ==
    IF by = "caller" THEN <<>> ELSE <<Ev("setupcomplete", <<>>)>>

\* The awaited open of a connect called by `by` resolves: onopen runs, then
\* connect's continuation, then (for a reconnection) attemptReconnection's.
\* A session the client held before is no longer referenced, and still open.
OpenResolved(by) ==
    /\ opening[by] > 0
    /\ opening' = [opening EXCEPT ![by] = @ - 1]
    /\ leaked' = leaked + HeldCount(session)
    /\ session' = Held
    /\ status' = "connected"
    /\ reconnectAttempts' = 0
    /\ out' = Out("connect.resolved", by, "true",
                  <<Ev("open", <<>>)>> \o ReconnectedEvents(by),
                  <<"client.open">>, <<>>, <<>>, <<>>, 0)
    /\ exhausted' = "no"
    /\ UNCHANGED <<model, config, resumptionHandle, autoReconnectEnabled,
                   closing, backoffTimers, goAwayTimers, manual>>

\* Weakened variant: the catch block forgets the enabled flag.
CatchSchedulesIgnoringFlag(enabled, attempts) ==
    attempts < maxReconnectAttempts

CatchSchedules(enabled, attempts) ==
    enabled /\ attempts < maxReconnectAttempts

\* The awaited open rejects: the catch block of connect.
OpenRejected(by) ==
    /\ opening[by] > 0
    /\ opening' = [opening EXCEPT ![by] = @ - 1]
    /\ status' = "disconnected"
    /\ LET r == IF CatchSchedules(autoReconnectEnabled, reconnectAttempts)
                THEN ScheduleReconnect(autoReconnectEnabled, reconnectAttempts)
                ELSE NoSchedule(autoReconnectEnabled, reconnectAttempts)
       IN /\ backoffTimers + Len(r.sched) <= MaxBackoffTimers
          /\ autoReconnectEnabled' = r.enabled
          /\ reconnectAttempts' = r.attempts
          /\ backoffTimers' = backoffTimers + Len(r.sched)
          /\ out' = Out("connect.rejected", by, "false", <<>>, <<>>,
                        <<>>, r.sched, <<>>, 0)
          /\ exhausted' = ExhaustedAfter(r.enabled, FALSE)
    /\ UNCHANGED <<session, model, config, resumptionHandle, leaked, closing,
                   goAwayTimers, manual>>

(***************************************************************************)
(* disconnect                                                              *)
(***************************************************************************)
\* Faulty variant: the guard is inverted.
DisconnectRefusesHeld(s) == s = Held

DisconnectRefuses(s) == s = NoSession

\* Faulty variant: disconnect does not look for a session.
DisconnectAlways ==
    /\ closing' = closing + HeldCount(session)
    /\ session' = NoSession
    /\ status' = "disconnected"
    /\ manual' = TRUE
    /\ out' = Out("disconnect", "caller", "true", <<>>, <<"client.close">>,
                  <<>>, <<>>, <<>>, 0)
    /\ UNCHANGED <<model, config, resumptionHandle, autoReconnectEnabled,
                   reconnectAttempts, opening, leaked, backoffTimers,
                   goAwayTimers, exhausted>>

Disconnect ==
    IF DisconnectRefuses(session)
    THEN /\ out' = Quiet("disconnect", "caller", "false")
         /\ UNCHANGED <<status, session, model, config, resumptionHandle,
                        autoReconnectEnabled, reconnectAttempts, opening, leaked,
                        closing, backoffTimers, goAwayTimers, manual, exhausted>>
    ELSE /\ closing' = closing + 1
         /\ session' = NoSession
         /\ status' = "disconnected"
         /\ manual' = TRUE
         /\ out' = Out("disconnect", "caller", "true", <<>>, <<"client.close">>,
                       <<>>, <<>>, <<>>, 0)
         /\ UNCHANGED <<model, config, resumptionHandle, autoReconnectEnabled,
                        reconnectAttempts, opening, leaked, backoffTimers,
                        goAwayTimers, exhausted>>

(***************************************************************************)
(* onerror, onclose                                                        *)
(***************************************************************************)
\* Faulty variant: an error ends the session.
OnErrorDisconnects(e) ==
    /\ LiveSessions > 0
    /\ status' = "disconnected"
    /\ out' = Out("onerror", "transport", "none", <<Ev("error", <<e>>)>>,
                  <<"server.error">>, <<>>, <<>>, <<>>, 0)
    /\ UNCHANGED <<session, model, config, resumptionHandle,
                   autoReconnectEnabled, reconnectAttempts, opening, leaked,
                   closing, backoffTimers, goAwayTimers, manual, exhausted>>

OnError(e) ==
    /\ LiveSessions > 0
    /\ out' = Out("onerror", "transport", "none", <<Ev("error", <<e>>)>>,
                  <<"server.error">>, <<>>, <<>>, <<>>, 0)
    /\ UNCHANGED <<status, session, model, config, resumptionHandle,
                   autoReconnectEnabled, reconnectAttempts, opening, leaked,
                   closing, backoffTimers, goAwayTimers, manual, exhausted>>

\* Faulty variant: the close code is not looked at.
CloseReconnectsAnyCode(enabled, code) == enabled

CloseReconnects(enabled, code) == enabled /\ code # NormalClosure

\* Faulty variant: close is emitted before the handler updates the fields.
CloseObservedBefore(before, after) == before

\* What a listener of close reads from the client (status, session, attempt
\* counter): emit("close") is the last statement of onclose, after the
\* assignments and after scheduleReconnect.
CloseObserved(before, after) == after

\* Which session's close callback may run: the one the client holds
\* ("current"), one it no longer references ("leaked"), or one it closed
\* itself with session.close() ("released").
ClosesOf == {"current", "leaked", "released"}

CanClose(which) ==
    CASE which = "current" -> session = Held
      [] which = "leaked" -> leaked > 0
      [] which = "released" -> closing > 0

\* The close callback of a transport session; the transport chooses the code.
\* The handler clears _session whichever session closed.
OnClose(which, code) ==
    /\ CanClose(which)
    /\ closing' = IF which = "released" THEN closing - 1 ELSE closing
    /\ leaked' = CASE which = "current" -> leaked
                   [] which = "leaked" -> leaked - 1 + HeldCount(session)
                   [] which = "released" -> leaked + HeldCount(session)
    /\ status' = "disconnected"
    /\ session' = NoSession
    /\ LET r == IF CloseReconnects(autoReconnectEnabled, code)
                THEN ScheduleReconnect(autoReconnectEnabled, reconnectAttempts)
                ELSE NoSchedule(autoReconnectEnabled, reconnectAttempts)
       IN /\ backoffTimers + Len(r.sched) <= MaxBackoffTimers
          /\ autoReconnectEnabled' = r.enabled
          /\ reconnectAttempts' = r.attempts
          /\ backoffTimers' = backoffTimers + Len(r.sched)
          /\ out' = Out("onclose", which, "none",
                        <<Ev("close",
                             <<code>> \o CloseObserved(
                                 <<status, session, reconnectAttempts>>,
                                 <<"disconnected", NoSession, r.attempts>>))>>,
                        <<"server.close">>, <<>>, r.sched, <<>>, code)
          /\ exhausted' = ExhaustedAfter(r.enabled, code # NormalClosure)
    /\ UNCHANGED <<model, config, resumptionHandle, opening, goAwayTimers, manual>>

(***************************************************************************)
(* Timers: scheduleReconnect's and the GoAway handler's setTimeout         *)
(***************************************************************************)
\* Faulty variant: the stored model and config are taken as missing.
MissingIdentityAlways(m, cfg) == TRUE

MissingIdentity(m, cfg) == cfg = Null \/ m = Null

\* attemptReconnection, up to the await inside connect.
AttemptReconnection(by, op, cap) ==
    IF MissingIdentity(model, config)
    THEN /\ out' = Quiet(op, by, "none")
         /\ UNCHANGED <<status, session, model, config, resumptionHandle,
                        autoReconnectEnabled, reconnectAttempts,
                        opening, leaked, closing>>
    ELSE ConnectCall(by, model, config, op, cap)

\* The callback scheduleReconnect passed to setTimeout.
BackoffTimerFires(cap) ==
    /\ backoffTimers > 0
    /\ backoffTimers' = backoffTimers - 1
    /\ AttemptReconnection("backoff", "timer.backoff", cap)
    /\ UNCHANGED <<goAwayTimers, manual, exhausted>>

GoAwayTimerActs(st) == st = "connected"

\* The callback the GoAway handler passed to setTimeout.
GoAwayTimerFires(cap) ==
    /\ goAwayTimers > 0
    /\ goAwayTimers' = goAwayTimers - 1
    /\ IF GoAwayTimerActs(status)
       THEN AttemptReconnection("goaway", "timer.goaway", cap)
       ELSE /\ out' = Quiet("timer.goaway", "goaway", "none")
            /\ UNCHANGED <<status, session, model, config, resumptionHandle,
                           autoReconnectEnabled, reconnectAttempts,
                           opening, leaked, closing>>
    /\ UNCHANGED <<backoffTimers, manual, exhausted>>

(***************************************************************************)
(* setAutoReconnect                                                        *)
(***************************************************************************)
\* Faulty variant: the counter is reset whatever the argument.
SetAutoReconnectResetsAlways(enabled) ==
    /\ autoReconnectEnabled' = enabled
    /\ reconnectAttempts' = 0
    /\ out' = Quiet("setAutoReconnect", "caller", "none")
    /\ exhausted' = IF ~enabled THEN "no"
                    ELSE IF exhausted = "disabled" THEN "reenabled" ELSE exhausted
    /\ UNCHANGED <<status, session, model, config, resumptionHandle, opening,
                   leaked, closing, backoffTimers, goAwayTimers, manual>>

SetAutoReconnect(enabled) ==
    /\ autoReconnectEnabled' = enabled
    /\ reconnectAttempts' = IF ~enabled THEN 0 ELSE reconnectAttempts
    /\ out' = Quiet("setAutoReconnect", "caller", "none")
    /\ exhausted' = IF ~enabled THEN "no"
                    ELSE IF exhausted = "disabled" THEN "reenabled" ELSE exhausted
    /\ UNCHANGED <<status, session, model, config, resumptionHandle, opening,
                   leaked, closing, backoffTimers, goAwayTimers, manual>>

(***************************************************************************)
(* getReconnectionStatus                                                   *)
(***************************************************************************)
\* Faulty variant: a handle is always reported.
GetReconnectionStatusHandleSet ==
    [enabled |-> autoReconnectEnabled,
     attempts |-> reconnectAttempts,
     maxAttempts |-> maxReconnectAttempts,
     hasResumptionHandle |-> TRUE]

GetReconnectionStatus ==
    [enabled |-> autoReconnectEnabled,
     attempts |-> reconnectAttempts,
     maxAttempts |-> maxReconnectAttempts,
     hasResumptionHandle |-> resumptionHandle # Null]

(***************************************************************************)
(* onmessage                                                               *)
(* An optional field is a sequence: <<>> when absent, <<v>> when present.  *)
(* A string the code inspects is a sequence of characters (timeLeft) or of *)
(* tokens (mime types).                                                    *)
(***************************************************************************)
Has(field) == Len(field) > 0

Digits == <<"0", "1", "2", "3", "4", "5", "6", "7", "8", "9">>

IsDigit(c) == \E i \in 1..Len(Digits) : Digits[i] = c

DigitValue(c) == (CHOOSE i \in 1..Len(Digits) : Digits[i] = c) - 1

RECURSIVE LeadingDigits(_)
LeadingDigits(str) ==
    IF str = <<>> \/ ~IsDigit(Head(str)) THEN <<>>
    ELSE <<Head(str)>> \o LeadingDigits(Tail(str))

RECURSIVE DecimalValue(_, _)
DecimalValue(digits, acc) ==
    IF digits = <<>> THEN acc
    ELSE DecimalValue(Tail(digits), 10 * acc + DigitValue(Head(digits)))

RECURSIVE SkipSpaces(_)
SkipSpaces(str) ==
    IF str # <<>> /\ Head(str) = " " THEN SkipSpaces(Tail(str)) ELSE str

\* parseInt(str): leading blanks, an optional sign, then the longest run of digits.
ParseInt(str) ==
    LET t == SkipSpaces(str)
        neg == t # <<>> /\ Head(t) = "-"
        signed == t # <<>> /\ Head(t) \in {"-", "+"}
        ds == LeadingDigits(IF signed THEN Tail(t) ELSE t)
    IN IF ds = <<>> THEN [nan |-> TRUE, val |-> 0]
       ELSE [nan |-> FALSE,
             val |-> IF neg THEN 0 - DecimalValue(ds, 0) ELSE DecimalValue(ds, 0)]

Max(a, b) == IF a >= b THEN a ELSE b

\* timeLeft is truthy: defined and not the empty string.
TimeLeftTruthy(timeLeft) == Has(timeLeft) /\ timeLeft[1] # <<>>

\* The timers the GoAway branch sets.
GoAwaySchedule(enabled, timeLeft) ==
    IF enabled /\ TimeLeftTruthy(timeLeft) /\ ~ParseInt(timeLeft[1]).nan
    THEN <<[kind |-> "goaway",
            delay |-> Max(0, ParseInt(timeLeft[1]).val - GoAwayLead)]>>
    ELSE <<>>

\* Faulty variant: the resumable flag is not looked at.
ResumptionAcceptedAnyFlag(update) ==
    Has(update.newHandle) /\ update.newHandle[1] # ""

\* resumptionUpdate.resumable && resumptionUpdate.newHandle: the handle is
\* present and not the empty string.
ResumptionAccepted(update) ==
    update.resumable /\ Has(update.newHandle) /\ update.newHandle[1] # ""

StartsWith(seq, prefix) ==
    Len(seq) >= Len(prefix) /\ SubSeq(seq, 1, Len(prefix)) = prefix

AudioPcm == <<"audio/", "pcm">>

\* Faulty variant: the mime type is not looked at.
IsAudioPartAnyInline(p) == Has(p.inlineData)

IsAudioPart(p) ==
    Has(p.inlineData) /\ StartsWith(p.inlineData[1].mimeType, AudioPcm)

\* base64ToArrayBuffer: four characters of the alphabet give three bytes,
\* "=" pads the last group.
Base64Alphabet == <<"A", "B", "C", "D", "E", "F", "G", "H", "I", "J", "K", "L", "M",
                    "N", "O", "P", "Q", "R", "S", "T", "U", "V", "W", "X", "Y", "Z",
                    "a", "b", "c", "d", "e", "f", "g", "h", "i", "j", "k", "l", "m",
                    "n", "o", "p", "q", "r", "s", "t", "u", "v", "w", "x", "y", "z",
                    "0", "1", "2", "3", "4", "5", "6", "7", "8", "9", "+", "/">>

Sextet(c) ==
    IF c = "=" THEN 0
    ELSE (CHOOSE i \in 1..Len(Base64Alphabet) : Base64Alphabet[i] = c) - 1

RECURSIVE Base64ToArrayBuffer(_)
Base64ToArrayBuffer(b64) ==
    IF Len(b64) < 4 THEN <<>>
    ELSE LET a == Sextet(b64[1])
             b == Sextet(b64[2])
             c == Sextet(b64[3])
             d == Sextet(b64[4])
             bytes == <<a * 4 + (b \div 16), (b % 16) * 16 + (c \div 4), (c % 4) * 64 + d>>
             kept == IF b64[3] = "=" THEN 1 ELSE IF b64[4] = "=" THEN 2 ELSE 3
         IN SubSeq(bytes, 1, kept) \o Base64ToArrayBuffer(SubSeq(b64, 5, Len(b64)))

RECURSIVE SelectParts(_, _)
SelectParts(parts, audio) ==
    IF parts = <<>> THEN <<>>
    ELSE (IF IsAudioPart(Head(parts)) = audio THEN <<Head(parts)>> ELSE <<>>)
         \o SelectParts(Tail(parts), audio)

\* base64s.forEach: an audio event and a log per audio part that has data.
RECURSIVE AudioEvents(_)
AudioEvents(audioParts) ==
    IF audioParts = <<>> THEN <<>>
    ELSE (IF Head(audioParts).inlineData[1].data # <<>>
          THEN <<Ev("audio", Base64ToArrayBuffer(Head(audioParts).inlineData[1].data))>>
          ELSE <<>>)
         \o AudioEvents(Tail(audioParts))

ModelTurnParts(sc) == IF Has(sc.modelTurn) THEN sc.modelTurn[1] ELSE <<>>

\* Faulty variant: an interruption does not end the handler.
ServerContentEventsInterruptedContinues(sc) ==
    (IF sc.interrupted THEN <<Ev("interrupted", <<>>)>> ELSE <<>>)
    \o (IF sc.turnComplete THEN <<Ev("turncomplete", <<>>)>> ELSE <<>>)
    \o (IF Has(sc.modelTurn)
        THEN AudioEvents(SelectParts(ModelTurnParts(sc), TRUE))
             \o (IF SelectParts(ModelTurnParts(sc), FALSE) # <<>>
                 THEN <<Ev("content", SelectParts(ModelTurnParts(sc), FALSE))>>
                 ELSE <<>>)
        ELSE <<>>)

\* Faulty variant: turnComplete ends the handler.
ServerContentEventsExclusive(sc) ==
    IF sc.interrupted THEN <<Ev("interrupted", <<>>)>>
    ELSE IF sc.turnComplete THEN <<Ev("turncomplete", <<>>)>>
    ELSE IF Has(sc.modelTurn)
         THEN AudioEvents(SelectParts(ModelTurnParts(sc), TRUE))
              \o (IF SelectParts(ModelTurnParts(sc), FALSE) # <<>>
                  THEN <<Ev("content", SelectParts(ModelTurnParts(sc), FALSE))>>
                  ELSE <<>>)
         ELSE <<>>

\* What the serverContent branch emits.
ServerContentEvents(sc) ==
    IF sc.interrupted THEN <<Ev("interrupted", <<>>)>>
    ELSE (IF sc.turnComplete THEN <<Ev("turncomplete", <<>>)>> ELSE <<>>)
         \o (IF Has(sc.modelTurn)
             THEN AudioEvents(SelectParts(ModelTurnParts(sc), TRUE))
                  \o (IF SelectParts(ModelTurnParts(sc), FALSE) # <<>>
                      THEN <<Ev("content", SelectParts(ModelTurnParts(sc), FALSE))>>
                      ELSE <<>>)
             ELSE <<>>)

ServerContentLogs(sc) ==
    IF sc.interrupted THEN <<"server.content">>
    ELSE (IF sc.turnComplete THEN <<"server.content">> ELSE <<>>)
         \o (IF Has(sc.modelTurn)
             THEN [i \in 1..Len(AudioEvents(SelectParts(ModelTurnParts(sc), TRUE)))
                     |-> "server.audio"]
                  \o (IF SelectParts(ModelTurnParts(sc), FALSE) # <<>>
                      THEN <<"server.content">> ELSE <<>>)
             ELSE <<>>)

\* Faulty variant: serverContent is looked at first.
ClassifyContentFirst(msg) ==
    IF Has(msg.serverContent) THEN "serverContent"
    ELSE IF msg.setupComplete THEN "setupComplete"
    ELSE IF Has(msg.goAway) THEN "goAway"
    ELSE IF Has(msg.sessionResumptionUpdate) THEN "sessionResumptionUpdate"
    ELSE IF msg.toolCall THEN "toolCall"
    ELSE IF msg.toolCallCancellation THEN "toolCallCancellation"
    ELSE "unmatched"

\* The branch of onmessage that handles msg: the first marker present.
Classify(msg) ==
    IF msg.setupComplete THEN "setupComplete"
    ELSE IF Has(msg.goAway) THEN "goAway"
    ELSE IF Has(msg.sessionResumptionUpdate) THEN "sessionResumptionUpdate"
    ELSE IF msg.toolCall THEN "toolCall"
    ELSE IF msg.toolCallCancellation THEN "toolCallCancellation"
    ELSE IF Has(msg.serverContent) THEN "serverContent"
    ELSE "unmatched"

\* Faulty variant: an unmatched message is passed on as content.
MessageEventsUnmatchedAsContent(msg) ==
    CASE Classify(msg) = "setupComplete" -> <<Ev("setupcomplete", <<>>)>>
      [] Classify(msg) = "toolCall" -> <<Ev("toolcall", <<>>)>>
      [] Classify(msg) = "toolCallCancellation" -> <<Ev("toolcallcancellation", <<>>)>>
      [] Classify(msg) = "serverContent" -> ServerContentEvents(msg.serverContent[1])
      [] Classify(msg) = "unmatched" -> <<Ev("content", <<>>)>>
      [] OTHER -> <<>>

MessageEvents(msg) ==
    CASE Classify(msg) = "setupComplete" -> <<Ev("setupcomplete", <<>>)>>
      [] Classify(msg) = "toolCall" -> <<Ev("toolcall", <<>>)>>
      [] Classify(msg) = "toolCallCancellation" -> <<Ev("toolcallcancellation", <<>>)>>
      [] Classify(msg) = "serverContent" -> ServerContentEvents(msg.serverContent[1])
      [] OTHER -> <<>>

MessageLogs(msg) ==
    CASE Classify(msg) = "setupComplete" -> <<"server.send">>
      [] Classify(msg) = "goAway" -> <<"server.goaway">>
      [] Classify(msg) = "sessionResumptionUpdate" ->
            IF ResumptionAccepted(msg.sessionResumptionUpdate[1])
            THEN <<"server.resumption">> ELSE <<>>
      [] Classify(msg) = "toolCall" -> <<"server.toolCall">>
      [] Classify(msg) = "toolCallCancellation" -> <<"server.toolCallCancellation">>
      [] Classify(msg) = "serverContent" -> ServerContentLogs(msg.serverContent[1])
      [] OTHER -> <<>>

MessageSchedule(msg) ==
    IF Classify(msg) = "goAway"
    THEN GoAwaySchedule(autoReconnectEnabled, msg.goAway[1].timeLeft)
    ELSE <<>>

MessageHandle(msg) ==
    IF /\ Classify(msg) = "sessionResumptionUpdate"
       /\ ResumptionAccepted(msg.sessionResumptionUpdate[1])
    THEN msg.sessionResumptionUpdate[1].newHandle[1]
    ELSE resumptionHandle

\* The message callback of transport session s.
OnMessage(msg) ==
    /\ LiveSessions > 0
    /\ goAwayTimers + Len(MessageSchedule(msg)) <= MaxGoAwayTimers
    /\ goAwayTimers' = goAwayTimers + Len(MessageSchedule(msg))
    /\ resumptionHandle' = MessageHandle(msg)
    /\ out' = Out("onmessage", Classify(msg), "none", MessageEvents(msg),
                  MessageLogs(msg), <<>>, MessageSchedule(msg), <<>>, 0)
    /\ UNCHANGED <<status, session, model, config, autoReconnectEnabled,
                   reconnectAttempts, opening, leaked, closing, backoffTimers, manual, exhausted>>

(***************************************************************************)
(* The inbound messages the transport delivers in this model.              *)
(***************************************************************************)
Msg(setupComplete, goAway, update, toolCall, cancellation, serverContent) ==
    [setupComplete |-> setupComplete, goAway |-> goAway,
     sessionResumptionUpdate |-> update, toolCall |-> toolCall,
     toolCallCancellation |-> cancellation, serverContent |-> serverContent]

NoMarkers == Msg(FALSE, <<>>, <<>>, FALSE, FALSE, <<>>)

GoAway(timeLeft) == [NoMarkers EXCEPT !.goAway = <<[timeLeft |-> timeLeft]>>]

Update(resumable, newHandle) ==
    [NoMarkers EXCEPT !.sessionResumptionUpdate =
        <<[resumable |-> resumable, newHandle |-> newHandle]>>]

ServerContent(interrupted, turnComplete, modelTurn) ==
    [NoMarkers EXCEPT !.serverContent =
        <<[interrupted |-> interrupted, turnComplete |-> turnComplete,
           modelTurn |-> modelTurn]>>]

TextPart == [inlineData |-> <<>>, text |-> <<"t">>]

AudioPart == [inlineData |-> <<[mimeType |-> <<"audio/", "pcm", ";rate=24000">>,
                                data |-> <<"A", "Q", "I", "D">>]>>,
              text |-> <<>>]

TimeLefts == {<<>>, <<<<"5", "0", "0", "0">>>>}

Messages ==
    {[NoMarkers EXCEPT !.setupComplete = TRUE],
     ServerContent(FALSE, TRUE, <<<<AudioPart, TextPart>>>>),
     Update(FALSE, <<"h1">>),
     Update(TRUE, <<>>),
     Update(TRUE, <<"">>)}
    \cup {GoAway(t) : t \in TimeLefts}
    \cup {Update(TRUE, <<h>>) : h \in Handles}

\* A wider range of inbound messages: the six markers alone, in pairs and all
\* together,
\* every shape of serverContent over a range of part lists, and GoAway
\* warnings over a range of timeLeft strings.
AudioPart2 == [inlineData |-> <<[mimeType |-> <<"audio/", "pcm">>,
                                 data |-> <<"B", "A", "U", "G">>]>>,
               text |-> <<>>]

EmptyAudioPart == [inlineData |-> <<[mimeType |-> <<"audio/", "pcm">>,
                                     data |-> <<>>]>>,
                   text |-> <<>>]

ImagePart == [inlineData |-> <<[mimeType |-> <<"image/", "jpeg">>,
                                data |-> <<"A", "Q", "I", "D">>]>>,
              text |-> <<>>]

TextPart2 == [inlineData |-> <<>>, text |-> <<"u">>]

PartLists ==
    {<<>>,
     <<AudioPart, TextPart, AudioPart2>>,
     <<AudioPart, AudioPart2>>,
     <<TextPart, AudioPart, TextPart2>>,
     <<ImagePart, AudioPart2, TextPart>>,
     <<EmptyAudioPart, TextPart>>,
     <<AudioPart2, EmptyAudioPart, AudioPart>>}

ModelTurns == {<<>>} \cup {<<parts>> : parts \in PartLists}

ServerContents ==
    {ServerContent(FALSE, turnComplete, modelTurn) :
        turnComplete \in BOOLEAN, modelTurn \in ModelTurns}
    \cup {ServerContent(TRUE, turnComplete, modelTurn) :
            turnComplete \in BOOLEAN,
            modelTurn \in {<<>>, <<<<AudioPart, TextPart, AudioPart2>>>>}}

TimeLeftsWide ==
    {<<>>, <<<<>>>>,
     <<<<"5", "0", "0", "0">>>>, <<<<"5", "0", "0">>>>, <<<<"0">>>>,
     <<<<"-", "5">>>>, <<<<"a", "b", "c">>>>}

Markers == {"setupComplete", "goAway", "sessionResumptionUpdate", "toolCall",
            "toolCallCancellation", "serverContent"}

\* The message that carries exactly the markers in `present`.
Combination(present) ==
    Msg("setupComplete" \in present,
        IF "goAway" \in present
        THEN <<[timeLeft |-> <<<<"5", "0", "0", "0">>>>]>> ELSE <<>>,
        IF "sessionResumptionUpdate" \in present
        THEN <<[resumable |-> TRUE, newHandle |-> <<"h1">>]>> ELSE <<>>,
        "toolCall" \in present,
        "toolCallCancellation" \in present,
        IF "serverContent" \in present
        THEN <<[interrupted |-> FALSE, turnComplete |-> TRUE,
                modelTurn |-> <<<<AudioPart, TextPart>>>>]>>
        ELSE <<>>)

MessagesWide ==
    Messages
    \cup {Combination(present) :
            present \in {some \in SUBSET Markers : Cardinality(some) \in {0, 1, 2, 6}}}
    \cup ServerContents
    \cup {GoAway(t) : t \in TimeLeftsWide}

(***************************************************************************)
(* sendRealtimeInput, sendToolResponse, send                               *)
(* A frame is one call of a send method of the transport session.          *)
(***************************************************************************)
Frame(kind, payload) == [kind |-> kind, payload |-> payload]

\* Faulty variant: frames are handed over whether or not a session is held.
SessionSendsAlways(s, frames) == frames

\* this.session?.send...(...): the calls reach the transport only when the
\* client holds a session.
SessionSends(s, frames) == IF s = Held THEN frames ELSE <<>>

\* mimeType.includes(word), on a mime type given as a sequence of tokens.
Includes(mimeType, word) == \E i \in 1..Len(mimeType) : mimeType[i] = word

\* The for loop of sendRealtimeInput: the chunks it passes to the session and
\* the two flags it ends with. The loop stops after the chunk at which both
\* flags are set.
RECURSIVE RealtimeLoop(_, _, _)
RealtimeLoop(chunks, hasAudio, hasVideo) ==
    IF chunks = <<>>
    THEN [sent |-> <<>>, hasAudio |-> hasAudio, hasVideo |-> hasVideo]
    ELSE LET ch == Head(chunks)
             a == hasAudio \/ Includes(ch.mimeType, "audio")
             v == hasVideo \/ Includes(ch.mimeType, "image")
             rest == IF a /\ v
                     THEN [sent |-> <<>>, hasAudio |-> a, hasVideo |-> v]
                     ELSE RealtimeLoop(Tail(chunks), a, v)
         IN [sent |-> <<ch>> \o rest.sent,
             hasAudio |-> rest.hasAudio, hasVideo |-> rest.hasVideo]

\* The log entry of sendRealtimeInput: its type and its message.
RealtimeLog(hasAudio, hasVideo) ==
    IF hasAudio /\ hasVideo THEN "client.realtimeInput: audio + video"
    ELSE IF hasAudio THEN "client.realtimeInput: audio"
    ELSE IF hasVideo THEN "client.realtimeInput: video"
    ELSE "client.realtimeInput: unknown"

SendRealtimeInput(chunks) ==
    /\ LET r == RealtimeLoop(chunks, FALSE, FALSE)
       IN out' = Out("sendRealtimeInput", "caller", "none", <<>>,
                     <<RealtimeLog(r.hasAudio, r.hasVideo)>>, <<>>, <<>>,
                     SessionSends(session,
                                  [i \in 1..Len(r.sent) |->
                                      Frame("realtimeInput", [media |-> r.sent[i]])]),
                     0)
    /\ UNCHANGED <<status, session, model, config, resumptionHandle,
                   autoReconnectEnabled, reconnectAttempts, opening, leaked,
                   closing, backoffTimers, goAwayTimers, manual, exhausted>>

\* Faulty variant: the list of function responses is not looked at.
ToolResponseSendsAlways(toolResponse) == TRUE

\* toolResponse.functionResponses && toolResponse.functionResponses.length
ToolResponseSends(toolResponse) ==
    Has(toolResponse.functionResponses) /\ Len(toolResponse.functionResponses[1]) > 0

FunctionResponsesOf(toolResponse) ==
    IF Has(toolResponse.functionResponses)
    THEN toolResponse.functionResponses[1] ELSE "undefined"

SendToolResponse(toolResponse) ==
    /\ out' = IF ToolResponseSends(toolResponse)
              THEN Out("sendToolResponse", "caller", "none", <<>>,
                       <<"client.toolResponse">>, <<>>, <<>>,
                       SessionSends(session,
                                    <<Frame("toolResponse",
                                            [functionResponses |->
                                                FunctionResponsesOf(toolResponse)])>>),
                       0)
              ELSE Quiet("sendToolResponse", "caller", "none")
    /\ UNCHANGED <<status, session, model, config, resumptionHandle,
                   autoReconnectEnabled, reconnectAttempts, opening, leaked,
                   closing, backoffTimers, goAwayTimers, manual, exhausted>>

\* send(parts, turnComplete): parts is one Part or an array of them, passed
\* on as given.
Send(parts, turnComplete) ==
    /\ out' = Out("send", "caller", "none", <<>>, <<"client.send">>, <<>>, <<>>,
                  SessionSends(session,
                               <<Frame("clientContent",
                                       [turns |-> parts,
                                        turnComplete |-> turnComplete])>>),
                  0)
    /\ UNCHANGED <<status, session, model, config, resumptionHandle,
                   autoReconnectEnabled, reconnectAttempts, opening, leaked,
                   closing, backoffTimers, goAwayTimers, manual, exhausted>>

(***************************************************************************)
(* What the caller sends in this model.                                    *)
(***************************************************************************)
Chunk(mimeType, data) == [mimeType |-> mimeType, data |-> data]

AudioChunk == Chunk(<<"audio", "/", "pcm">>, "a")
AudioChunk2 == Chunk(<<"audio", "/", "pcm">>, "b")
ImageChunk == Chunk(<<"image", "/", "jpeg">>, "i")
TextChunk == Chunk(<<"text", "/", "plain">>, "t")

ChunkLists ==
    {<<>>, <<AudioChunk>>, <<ImageChunk>>, <<TextChunk>>,
     <<AudioChunk, AudioChunk2>>, <<AudioChunk, ImageChunk, AudioChunk2>>}

ToolResponses ==
    {[functionResponses |-> <<>>],
     [functionResponses |-> <<<<>>>>],
     [functionResponses |-> <<<<"r1", "r2">>>>]}

SendInputs ==
    {[parts |-> [isArray |-> FALSE, value |-> TextPart], turnComplete |-> TRUE],
     [parts |-> [isArray |-> TRUE, value |-> <<TextPart, TextPart>>],
      turnComplete |-> FALSE]}

(***************************************************************************)
(* The specification                                                       *)
(***************************************************************************)
Init ==
    /\ status = "disconnected"
    /\ session = NoSession
    /\ model = Null
    /\ config = Null
    /\ resumptionHandle = Null
    /\ autoReconnectEnabled = TRUE
    /\ reconnectAttempts = 0
    /\ opening = [by \in Callers |-> 0]
    /\ leaked = 0
    /\ closing = 0
    /\ backoffTimers = 0
    /\ goAwayTimers = 0
    /\ manual = FALSE
    /\ exhausted = "no"
    /\ out = Quiet("init", "none", "none")

Step(cap) ==
    \/ \E id \in Identities : Connect(id[1], id[2], cap)
    \/ \E by \in Callers : OpenResolved(by)
    \/ \E by \in Callers : OpenRejected(by)
    \/ Disconnect
    \/ \E e \in Errors : OnError(e)
    \/ \E which \in ClosesOf, code \in CloseCodes : OnClose(which, code)
    \/ \E msg \in Messages : OnMessage(msg)
    \/ BackoffTimerFires(cap)
    \/ GoAwayTimerFires(cap)
    \/ \E enabled \in BOOLEAN : SetAutoReconnect(enabled)

Next == Step(MaxSessions)

Spec == Init /\ [][Next]_vars

\* The caller connects once and then issues no command: only the transport
\* and the timers act.
NextQuiet ==
    \/ \E id \in Identities : model = Null /\ Connect(id[1], id[2], MaxSessions)
    \/ \E by \in Callers : OpenResolved(by)
    \/ \E by \in Callers : OpenRejected(by)
    \/ \E which \in ClosesOf, code \in CloseCodes : OnClose(which, code)
    \/ \E msg \in Messages : OnMessage(msg)
    \/ BackoffTimerFires(MaxSessions)
    \/ GoAwayTimerFires(MaxSessions)

SpecQuiet == Init /\ [][NextQuiet]_vars

\* The same client on a transport that serves one more session at once.
NextWide == Step(MaxSessionsWide)

SpecWide == Init /\ [][NextWide]_vars

\* The message handler over the wider range of messages, with the handlers
\* that start and end sessions, the timers and the enabled flag.
NextMessages ==
    \/ \E id \in Identities : Connect(id[1], id[2], MaxSessions)
    \/ \E by \in Callers : OpenResolved(by)
    \/ \E which \in ClosesOf, code \in CloseCodes : OnClose(which, code)
    \/ \E msg \in MessagesWide : OnMessage(msg)
    \/ BackoffTimerFires(MaxSessions)
    \/ GoAwayTimerFires(MaxSessions)
    \/ \E enabled \in BOOLEAN : SetAutoReconnect(enabled)

SpecMessages == Init /\ [][NextMessages]_vars

\* The caller's sends, which read _session and write no field, interleaved
\* with the handlers that assign _session and with the backoff timer.
NextSend ==
    \/ \E id \in Identities : Connect(id[1], id[2], MaxSessions)
    \/ \E by \in Callers : OpenResolved(by)
    \/ \E by \in Callers : OpenRejected(by)
    \/ Disconnect
    \/ \E which \in ClosesOf, code \in CloseCodes : OnClose(which, code)
    \/ BackoffTimerFires(MaxSessions)
    \/ \E chunks \in ChunkLists : SendRealtimeInput(chunks)
    \/ \E toolResponse \in ToolResponses : SendToolResponse(toolResponse)
    \/ \E input \in SendInputs : Send(input.parts, input.turnComplete)

SpecSend == Init /\ [][NextSend]_vars

\* A reconnection is under way: a backoff timer is pending or the open of a
\* timer-driven connect is awaited.
ChainActive == backoffTimers > 0 \/ opening["backoff"] > 0

\* The caller calls connect only while no reconnection is under way; its
\* other calls, the transport and the timers are free.
NextUndisturbed ==
    \/ \E id \in Identities : ~ChainActive /\ Connect(id[1], id[2], MaxSessions)
    \/ \E by \in Callers : OpenResolved(by)
    \/ \E by \in Callers : OpenRejected(by)
    \/ Disconnect
    \/ \E e \in Errors : OnError(e)
    \/ \E which \in ClosesOf, code \in CloseCodes : OnClose(which, code)
    \/ \E msg \in Messages : OnMessage(msg)
    \/ BackoffTimerFires(MaxSessions)
    \/ GoAwayTimerFires(MaxSessions)
    \/ \E enabled \in BOOLEAN : SetAutoReconnect(enabled)

SpecUndisturbed == Init /\ [][NextUndisturbed]_vars

\* The timers fire and the transport settles every open it was asked for.
\* The caller connects once; the transport serves that open and rejects every
\* open a timer starts.
NextRejecting ==
    \/ \E id \in Identities : model = Null /\ Connect(id[1], id[2], MaxSessions)
    \/ OpenResolved("caller")
    \/ \E by \in Callers : OpenRejected(by)
    \/ \E which \in ClosesOf, code \in CloseCodes : OnClose(which, code)
    \/ \E msg \in Messages : OnMessage(msg)
    \/ BackoffTimerFires(MaxSessions)
    \/ GoAwayTimerFires(MaxSessions)

SpecRejecting ==
    /\ Init
    /\ [][NextRejecting]_vars
    /\ WF_vars(BackoffTimerFires(MaxSessions))
    /\ WF_vars(\E by \in Callers : OpenRejected(by))

\* The transport settles an open either way while attempts are left, and
\* serves the open that is pending when the budget is used up.
OpenSettled(by) ==
    \/ OpenResolved(by)
    \/ reconnectAttempts < maxReconnectAttempts /\ OpenRejected(by)

\* The caller connects once and is silent; timers and transport are fair.
NextRecovering ==
    \/ \E id \in Identities : model = Null /\ Connect(id[1], id[2], MaxSessions)
    \/ \E by \in Callers : OpenSettled(by)
    \/ \E which \in ClosesOf, code \in CloseCodes : OnClose(which, code)
    \/ \E msg \in Messages : OnMessage(msg)
    \/ BackoffTimerFires(MaxSessions)
    \/ GoAwayTimerFires(MaxSessions)

SpecRecovering ==
    /\ Init
    /\ [][NextRecovering]_vars
    /\ WF_vars(BackoffTimerFires(MaxSessions))
    /\ WF_vars(\E by \in Callers : OpenSettled(by))


(***************************************************************************)
(* Properties                                                              *)
(***************************************************************************)
TransportVars == <<opening, leaked, closing, backoffTimers, goAwayTimers>>

\* C1: at most one transport session opened by the client is live at a time.
C1_AtMostOneLiveSession == LiveSessions <= 1

\* C2: a connect call made while status is Connecting or Connected returns
\* false, starts no transport open and changes no field of the client.
C2_RejectedConnectChangesNothing ==
    [][(out'.op = "connect" /\ status \in {"connecting", "connected"})
        => /\ out'.ret = "false"
           /\ out'.opened = <<>>
           /\ UNCHANGED clientVars
           /\ UNCHANGED TransportVars]_vars

C2_Witness ==
    /\ out.op = "connect"
    /\ out.ret = "false"
    /\ status = "connecting"

\* C3: after a disconnect() that returned true, no transport open is started
\* until the caller calls connect again, and that call is the one starting it.
C3_NoReconnectAfterDisconnect ==
    [][manual => (out'.opened = <<>> \/ out'.opened[1].by = "caller")]_vars

\* C4: disconnect() with an active session closes it, clears the session handle,
\* sets status Disconnected and returns true; the close callback of a session
\* closed that way schedules no reconnection and leaves the attempt counter.
C4_ManualCloseNeverReconnects ==
    [][/\ (out'.op = "disconnect" /\ session = Held)
            => /\ out'.ret = "true"
               /\ session' = NoSession
               /\ status' = "disconnected"
               /\ closing' = closing + 1
       /\ (out'.op = "onclose" /\ out'.by = "released")
            => /\ out'.sched = <<>>
               /\ reconnectAttempts' = reconnectAttempts]_vars

\* C5: the client starts a transport open of its own only while
\* autoReconnectEnabled is true, and a closure with code 1000 schedules none.
C5_ReconnectOnlyWhileEnabled ==
    [][/\ (out'.opened # <<>> /\ out'.opened[1].by # "caller") => autoReconnectEnabled
       /\ (out'.op = "onclose" /\ out'.code = NormalClosure) => out'.sched = <<>>]_vars

\* C6: when the reconnection attempt that used up the budget (the attempt
\* counter is at maxReconnectAttempts) fails, auto-reconnect is disabled, the
\* counter stays at the maximum and nothing further is scheduled.
C6_ExhaustionDisables ==
    [][(/\ out'.op = "connect.rejected"
        /\ out'.by = "backoff"
        /\ reconnectAttempts = maxReconnectAttempts)
        => /\ ~autoReconnectEnabled'
           /\ reconnectAttempts' = maxReconnectAttempts
           /\ out'.sched = <<>>]_vars

\* C7: once exhaustion has disabled reconnection and setAutoReconnect(true) has
\* been called, the next abnormal closure schedules a reconnection attempt and
\* leaves auto-reconnect enabled (here: when no open has resolved in between,
\* the case in which the counter is still at its maximum).
C7_ReenableRestoresReconnection ==
    [][(/\ exhausted = "reenabled"
        /\ autoReconnectEnabled
        /\ out'.op = "onclose"
        /\ out'.code # NormalClosure)
        => /\ out'.sched # <<>>
           /\ autoReconnectEnabled']_vars

\* C8: a connect accepted from Disconnected leaves status Connecting with the
\* open pending; a resolved open leaves status Connected, the attempt counter 0
\* and returns true; a rejected open leaves status Disconnected, returns false
\* and schedules one reconnection exactly when auto-reconnect is enabled and
\* the attempt counter is below maxReconnectAttempts.
C8_ConnectOutcomes ==
    [][/\ (out'.op = "connect" /\ status = "disconnected")
            => /\ status' = "connecting"
               /\ out'.ret = "pending"
               /\ Len(out'.opened) = 1
               /\ OpeningCount' = OpeningCount + 1
       /\ out'.op = "connect.resolved"
            => /\ status' = "connected"
               /\ reconnectAttempts' = 0
               /\ session' = Held
               /\ out'.ret = "true"
       /\ out'.op = "connect.rejected"
            => /\ status' = "disconnected"
               /\ out'.ret = "false"
               /\ Len(out'.sched) =
                    IF autoReconnectEnabled /\ reconnectAttempts < maxReconnectAttempts
                    THEN 1 ELSE 0
               /\ backoffTimers' = backoffTimers + Len(out'.sched)]_vars

C8_Witness ==
    /\ out.op = "connect.rejected"
    /\ out.by = "caller"
    /\ out.sched # <<>>
    /\ status = "disconnected"

\* C9: when a GoAway timer fires while status is Connected, a transport open is
\* started with the stored model and config and the current resumption handle.
C9_GoAwayTimerOpensReplacement ==
    [][(out'.op = "timer.goaway" /\ status = "connected")
        => /\ Len(out'.opened) = 1
           /\ out'.opened[1].model = model
           /\ out'.opened[1].config.config = config
           /\ out'.opened[1].config.sessionResumption =
                IF resumptionHandle # Null THEN resumptionHandle ELSE "undefined"]_vars

\* C10: disconnect() with no active session returns false, emits no
\* notification and no log, and leaves all state unchanged.
C10_DisconnectWithoutSession ==
    [][(out'.op = "disconnect" /\ session = NoSession)
        => /\ out'.ret = "false"
           /\ out'.events = <<>>
           /\ out'.logs = <<>>
           /\ UNCHANGED clientVars
           /\ UNCHANGED TransportVars]_vars

C10_Witness ==
    /\ out.op = "disconnect"
    /\ out.ret = "false"
    /\ status = "disconnected"
    /\ model # Null

\* C11: a close callback with code 1000 schedules no reconnection and leaves
\* the attempt counter and the enabled flag as they were, whether
\* auto-reconnect is enabled or not.
C11_NormalClosureSchedulesNothing ==
    [][(out'.op = "onclose" /\ out'.code = 1000)
        => /\ out'.sched = <<>>
           /\ backoffTimers' = backoffTimers
           /\ reconnectAttempts' = reconnectAttempts
           /\ autoReconnectEnabled' = autoReconnectEnabled]_vars

C11_Witness ==
    /\ out.op = "onclose"
    /\ out.code = 1000
    /\ autoReconnectEnabled
    /\ reconnectAttempts > 0

\* C12: a close callback with a code other than 1000, with auto-reconnect
\* enabled and the attempt counter at 0, sets exactly one reconnection timer,
\* of 1000 ms, and leaves the attempt counter at 1.
C12_FirstAbnormalClosure ==
    [][(/\ out'.op = "onclose"
        /\ out'.code # 1000
        /\ autoReconnectEnabled
        /\ reconnectAttempts = 0)
        => /\ out'.sched = <<[kind |-> "backoff", delay |-> 1000]>>
           /\ backoffTimers' = backoffTimers + 1
           /\ reconnectAttempts' = 1]_vars

C12_Witness ==
    /\ out.op = "onclose"
    /\ out.code # 1000
    /\ out.by = "current"
    /\ out.sched # <<>>
    /\ reconnectAttempts = 1

\* The delays of reconnection attempts 1 to 5.
BackoffTable == <<1000, 2000, 4000, 8000, 16000>>

\* C13: every backoff timer that is set has delay reconnectDelay * 2^n, n the
\* attempt counter before its increment: the attempt then numbered k (1 to 5)
\* waits 1000, 2000, 4000, 8000, 16000 ms, and no delay exceeds
\* reconnectDelay * 2^(maxReconnectAttempts - 1).
C13_BackoffDelays ==
    [][\A i \in 1..Len(out'.sched) :
          out'.sched[i].kind = "backoff"
          => /\ Len(out'.sched) = 1
             /\ reconnectAttempts' = reconnectAttempts + 1
             /\ reconnectAttempts' \in 1..5
             /\ out'.sched[i].delay = BackoffTable[reconnectAttempts']
             /\ out'.sched[i].delay <= 16000]_vars

C13_Witness ==
    /\ out.sched # <<>>
    /\ out.sched[1].kind = "backoff"
    /\ out.sched[1].delay = 16000
    /\ reconnectAttempts = 5

\* The number of setupcomplete notifications among the events of one handler.
SetupCompletes(events) ==
    Cardinality({i \in 1..Len(events) : events[i].type = "setupcomplete"})

\* C14: when the open started by a reconnection attempt resolves, the attempt
\* counter is 0 and exactly one setupcomplete is emitted; when it is rejected,
\* or the attempt's connect is refused or still pending, none is emitted.
C14_ReconnectionAnnounced ==
    [][/\ (out'.op = "connect.resolved" /\ out'.by # "caller")
            => /\ reconnectAttempts' = 0
               /\ SetupCompletes(out'.events) = 1
       /\ (out'.op = "connect.rejected" /\ out'.by # "caller")
            => SetupCompletes(out'.events) = 0
       /\ out'.op \in {"timer.backoff", "timer.goaway"}
            => SetupCompletes(out'.events) = 0]_vars

C14_Witness ==
    /\ out.op = "connect.resolved"
    /\ out.by = "backoff"
    /\ status = "connected"
    /\ reconnectAttempts = 0

\* C15: every transport open carries the resumption handle stored at the time
\* the open is started, whoever starts it, and none when no handle is stored.
C15_OpenCarriesStoredHandle ==
    [][out'.opened # <<>>
        => /\ Len(out'.opened) = 1
           /\ out'.opened[1].config.sessionResumption =
                IF resumptionHandle = "null" THEN "undefined" ELSE resumptionHandle]_vars

C15_Witness ==
    /\ out.opened # <<>>
    /\ out.opened[1].by = "backoff"
    /\ out.opened[1].config.sessionResumption = "h2"

\* C16: an open started by a reconnection attempt names the stored model and
\* config and leaves them stored; the stored model and config change only in
\* an accepted connect, to the arguments of that connect, and a refused
\* connect leaves them alone.
C16_ReconnectionReusesIdentity ==
    [][/\ (out'.opened # <<>> /\ out'.opened[1].by # "caller")
            => /\ out'.opened[1].model = model
               /\ out'.opened[1].config.config = config
               /\ model' = model
               /\ config' = config
       /\ (model' # model \/ config' # config)
            => /\ out'.op = "connect"
               /\ out'.ret = "pending"
               /\ out'.opened[1].model = model'
               /\ out'.opened[1].config.config = config'
       /\ (out'.op = "connect" /\ out'.ret = "false")
            => (model' = model /\ config' = config)]_vars

C16_Witness ==
    /\ out.opened # <<>>
    /\ out.opened[1].by = "backoff"
    /\ out.opened[1].model = "m2"
    /\ out.opened[1].config.config = "c2"

\* C17: the stored resumption handle changes only in the handler of a
\* resumption update that is resumable and carries a handle, and becomes that
\* handle; every other message and every other operation leaves it as it
\* was, so a stored handle is never cleared.
C17_HandleChangesOnlyOnUpdate ==
    [][/\ resumptionHandle' # resumptionHandle
            => /\ out'.op = "onmessage"
               /\ out'.by = "sessionResumptionUpdate"
               /\ resumptionHandle' \notin {"null", ""}
       /\ (out'.op = "onmessage" /\ out'.by = "sessionResumptionUpdate")
            => \A msg \in Messages :
                 (msg.sessionResumptionUpdate # <<>> /\ OnMessage(msg))
                 => resumptionHandle' =
                      IF /\ msg.sessionResumptionUpdate[1].resumable
                         /\ msg.sessionResumptionUpdate[1].newHandle # <<>>
                         /\ msg.sessionResumptionUpdate[1].newHandle[1] # ""
                      THEN msg.sessionResumptionUpdate[1].newHandle[1]
                      ELSE resumptionHandle]_vars

C17_Witness ==
    /\ out.op = "onmessage"
    /\ out.by = "sessionResumptionUpdate"
    /\ out.logs = <<>>
    /\ resumptionHandle = "h2"

\* C18: sendRealtimeInput(chunks) with a session held passes every chunk of
\* the list to the session, one call per chunk, in the order of the list,
\* whatever the mime types of the chunks.
C18_RealtimeInputForwardsAll ==
    [][(out'.op = "sendRealtimeInput" /\ session = "held")
        => \A chunks \in ChunkLists :
             SendRealtimeInput(chunks)
             => out'.sent = [i \in 1..Len(chunks) |->
                               [kind |-> "realtimeInput",
                                payload |-> [media |-> chunks[i]]]]]_vars

SendOps == {"sendRealtimeInput", "sendToolResponse", "send"}

\* C19: with no session held, the three sends pass nothing to the transport,
\* return normally and change no field, timer or session; whatever reaches
\* the transport is passed by a send that runs while a session is held and
\* is taken from the arguments of that very call, so nothing given earlier
\* is delivered later.
C19_SendsWithoutSessionDropped ==
    [][/\ (out'.op \in SendOps /\ session = "null")
            => /\ out'.sent = <<>>
               /\ out'.ret = "none"
               /\ out'.events = <<>>
               /\ out'.opened = <<>>
               /\ out'.sched = <<>>
               /\ UNCHANGED clientVars
               /\ UNCHANGED TransportVars
       /\ out'.sent # <<>>
            => /\ out'.op \in SendOps
               /\ session = "held"
               /\ \/ \E chunks \in ChunkLists :
                        /\ SendRealtimeInput(chunks)
                        /\ \A i \in 1..Len(out'.sent) :
                              \E j \in 1..Len(chunks) :
                                  out'.sent[i].payload.media = chunks[j]
                  \/ \E toolResponse \in ToolResponses :
                        /\ SendToolResponse(toolResponse)
                        /\ toolResponse.functionResponses # <<>>
                        /\ Len(out'.sent) = 1
                        /\ out'.sent[1].payload.functionResponses =
                              toolResponse.functionResponses[1]
                  \/ \E input \in SendInputs :
                        /\ Send(input.parts, input.turnComplete)
                        /\ Len(out'.sent) = 1
                        /\ out'.sent[1].payload.turns = input.parts]_vars

C19_Witness ==
    /\ out.op = "send"
    /\ out.sent = <<>>
    /\ session = "null"
    /\ status = "connecting"

\* C20: sendToolResponse with an absent or empty list of function responses
\* passes nothing to the transport and logs nothing, with or without a
\* session; with a non-empty list and a session held it passes exactly that
\* list, in one call.
C20_ToolResponseForwarding ==
    [][out'.op = "sendToolResponse"
        => \A toolResponse \in ToolResponses :
             SendToolResponse(toolResponse)
             => IF \/ toolResponse.functionResponses = <<>>
                   \/ toolResponse.functionResponses[1] = <<>>
                THEN out'.sent = <<>> /\ out'.logs = <<>>
                ELSE session = "held"
                     => out'.sent =
                          <<[kind |-> "toolResponse",
                             payload |-> [functionResponses |->
                                            toolResponse.functionResponses[1]]]>>]_vars

C20_Witness ==
    /\ out.op = "sendToolResponse"
    /\ out.sent # <<>>
    /\ status = "connected"

\* C24: every close callback, whatever the code, leaves status Disconnected
\* and no session held and emits exactly one close notification, carrying the
\* event; a listener of that notification reads the status, the session and
\* the attempt counter the handler leaves behind.
C24_CloseEmittedAfterUpdates ==
    [][out'.op = "onclose"
        => /\ status' = "disconnected"
           /\ session' = "null"
           /\ Len(out'.events) = 1
           /\ out'.events[1].type = "close"
           /\ out'.events[1].data =
                <<out'.code, status', session', reconnectAttempts'>>]_vars

C24_Witness ==
    /\ out.op = "onclose"
    /\ out.by = "current"
    /\ out.code = 1006
    /\ out.sched # <<>>
    /\ out.events[1].data = <<1006, "disconnected", "null", 2>>

\* C25: the error callback emits exactly one error notification, carrying
\* the event it was given, changes no field, session or timer and sets no
\* reconnection timer.
C25_ErrorOnlyNotifies ==
    [][out'.op = "onerror"
        => /\ Len(out'.events) = 1
           /\ out'.events[1].type = "error"
           /\ \A e \in Errors : OnError(e) => out'.events[1].data = <<e>>
           /\ out'.sched = <<>>
           /\ out'.opened = <<>>
           /\ UNCHANGED clientVars
           /\ UNCHANGED TransportVars]_vars

C25_Witness ==
    /\ out.op = "onerror"
    /\ out.events[1].data = <<"e2">>
    /\ status = "connected"
    /\ autoReconnectEnabled

\* C26: a backoff timer that fires while status is Connected or Connecting
\* starts no transport open, changes no field and no session, emits nothing
\* and sets no timer; only the fired timer itself is gone.
C26_BackoffTimerNoOpWhenBusy ==
    [][(out'.op = "timer.backoff" /\ status \in {"connected", "connecting"})
        => /\ out'.opened = <<>>
           /\ out'.events = <<>>
           /\ out'.sched = <<>>
           /\ UNCHANGED clientVars
           /\ UNCHANGED <<opening, leaked, closing, goAwayTimers>>
           /\ backoffTimers' = backoffTimers - 1]_vars

C26_Witness ==
    /\ out.op = "timer.backoff"
    /\ out.opened = <<>>
    /\ status = "connected"
    /\ model # "null"

\* C28: before any operation, getReconnectionStatus() returns enabled true,
\* attempts 0, maxAttempts 5, hasResumptionHandle false, and status is
\* Disconnected with no session.
C28_InitialStatus ==
    out.op = "init"
    => /\ GetReconnectionStatus = [enabled |-> TRUE, attempts |-> 0,
                                   maxAttempts |-> 5, hasResumptionHandle |-> FALSE]
       /\ status = "disconnected"
       /\ session = "null"

C28_Witness ==
    /\ out.op = "init"
    /\ model = "null"
    /\ config = "null"

\* The edges of the status machine.
StatusEdges ==
    {<<"disconnected", "connecting">>, <<"connecting", "connected">>,
     <<"connecting", "disconnected">>, <<"connected", "disconnected">>,
     <<"connected", "connecting">>}

\* C29: every change of status follows an edge of the status machine; in
\* particular status never goes from Disconnected straight to Connected.
C29_StatusEdges ==
    [][status' # status => <<status, status'>> \in StatusEdges]_vars

\* An inline audio part: inline data whose mime type starts with audio/pcm.
IsInlineAudio(p) ==
    /\ p.inlineData # <<>>
    /\ Len(p.inlineData[1].mimeType) >= 2
    /\ p.inlineData[1].mimeType[1] = "audio/"
    /\ p.inlineData[1].mimeType[2] = "pcm"

IsInlineAudioWithData(p) == IsInlineAudio(p) /\ p.inlineData[1].data # <<>>

IsOtherPart(p) == ~IsInlineAudio(p)

\* The bytes that the data strings of the audio parts stand for.
DecodedBytes(data) ==
    CASE data = <<"A", "Q", "I", "D">> -> <<1, 2, 3>>
      [] data = <<"B", "A", "U", "G">> -> <<4, 5, 6>>
      [] OTHER -> <<>>

AudioNotifications(audioParts) ==
    [i \in 1..Len(audioParts) |->
        [type |-> "audio", data |-> DecodedBytes(audioParts[i].inlineData[1].data)]]

ContentNotifications(otherParts) ==
    IF otherParts = <<>> THEN <<>> ELSE <<[type |-> "content", data |-> otherParts]>>

IsModelTurnEvent(ev) == ev.type \in {"audio", "content"}

EventTypes(events) == [i \in 1..Len(events) |-> events[i].type]

AllInlineAudio(parts) == SelectSeq(parts, IsInlineAudio)

InlineAudioWithData(parts) == SelectSeq(parts, IsInlineAudioWithData)

OtherParts(parts) == SelectSeq(parts, IsOtherPart)

\* The step, if it is the handler of a message that carries a model turn as
\* server content that is not an interruption, emits an audio notification
\* for each inline audio part of the turn (only those with data, if
\* `withData`), then the content notification of the other parts.
ModelTurnEmits(withData) ==
    \A msg \in MessagesWide :
        (/\ msg.serverContent # <<>>
         /\ ~msg.serverContent[1].interrupted
         /\ msg.serverContent[1].modelTurn # <<>>
         /\ OnMessage(msg))
        => LET parts == msg.serverContent[1].modelTurn[1]
               audioParts == IF withData THEN InlineAudioWithData(parts)
                             ELSE AllInlineAudio(parts)
               expected == AudioNotifications(audioParts)
                           \o ContentNotifications(OtherParts(parts))
               emitted == SelectSeq(out'.events, IsModelTurnEvent)
           IN /\ EventTypes(emitted) = EventTypes(expected)
              /\ emitted = expected

\* C21 as stated: for every list of parts of a model turn, onmessage emits one
\* audio notification per inline audio part, in the order of the parts, then
\* one content notification carrying exactly the other parts in their order
\* when there is one, and no content notification when all parts are audio.
C21_ModelTurnPartition ==
    [][(out'.op = "onmessage" /\ out'.by = "serverContent")
        => ModelTurnEmits(FALSE)]_vars

\* C21 amended: the same, with one audio notification per inline audio part
\* that carries data; an inline audio part without data is in neither the
\* audio notifications nor the content notification.
C21_ModelTurnPartitionWithData ==
    [][(out'.op = "onmessage" /\ out'.by = "serverContent")
        => ModelTurnEmits(TRUE)]_vars

C21_Witness ==
    /\ out.op = "onmessage"
    /\ out.events = <<[type |-> "audio", data |-> <<1, 2, 3>>],
                      [type |-> "audio", data |-> <<4, 5, 6>>],
                      [type |-> "content", data |-> <<TextPart>>]>>

\* The number of notifications of a type among the events of one handler.
Notifications(events, type) ==
    Cardinality({i \in 1..Len(events) : events[i].type = type})

\* C22: server content that carries turnComplete and a model turn with a part
\* that is not audio, and no interrupted field, emits one turncomplete and
\* one content notification.
C22_TurnCompleteAndContent ==
    [][(out'.op = "onmessage" /\ out'.by = "serverContent")
        => \A msg \in MessagesWide :
             (/\ msg.serverContent # <<>>
              /\ ~msg.serverContent[1].interrupted
              /\ msg.serverContent[1].turnComplete
              /\ msg.serverContent[1].modelTurn # <<>>
              /\ OtherParts(msg.serverContent[1].modelTurn[1]) # <<>>
              /\ OnMessage(msg))
             => /\ Notifications(out'.events, "turncomplete") = 1
                /\ Notifications(out'.events, "content") = 1]_vars

C22_Witness ==
    /\ out.op = "onmessage"
    /\ out.events = <<[type |-> "turncomplete", data |-> <<>>],
                      [type |-> "audio", data |-> <<1, 2, 3>>],
                      [type |-> "content", data |-> <<TextPart, TextPart2>>]>>

\* The marker of highest priority that msg carries.
HighestMarker(msg) ==
    IF msg.setupComplete THEN "setupComplete"
    ELSE IF msg.goAway # <<>> THEN "goAway"
    ELSE IF msg.sessionResumptionUpdate # <<>> THEN "sessionResumptionUpdate"
    ELSE IF msg.toolCall THEN "toolCall"
    ELSE IF msg.toolCallCancellation THEN "toolCallCancellation"
    ELSE IF msg.serverContent # <<>> THEN "serverContent"
    ELSE "unmatched"

\* The message that carries that marker of msg alone.
Highest(msg) ==
    IF msg.setupComplete THEN [NoMarkers EXCEPT !.setupComplete = TRUE]
    ELSE IF msg.goAway # <<>> THEN [NoMarkers EXCEPT !.goAway = msg.goAway]
    ELSE IF msg.sessionResumptionUpdate # <<>>
         THEN [NoMarkers EXCEPT !.sessionResumptionUpdate = msg.sessionResumptionUpdate]
    ELSE IF msg.toolCall THEN [NoMarkers EXCEPT !.toolCall = TRUE]
    ELSE IF msg.toolCallCancellation THEN [NoMarkers EXCEPT !.toolCallCancellation = TRUE]
    ELSE IF msg.serverContent # <<>>
         THEN [NoMarkers EXCEPT !.serverContent = msg.serverContent]
    ELSE NoMarkers

\* C23: onmessage handles a message by the first of setupComplete, goAway,
\* sessionResumptionUpdate, toolCall, toolCallCancellation, serverContent it
\* carries: what the handler emits, logs, schedules and stores is what it does
\* for the message that carries that marker alone.
C23_FirstMarkerWins ==
    [][out'.op = "onmessage"
        => \A msg \in MessagesWide :
             (out'.by = Classify(msg) /\ OnMessage(msg))
             => /\ out'.by = HighestMarker(msg)
                /\ OnMessage(Highest(msg))]_vars

C23_Witness ==
    /\ out.op = "onmessage"
    /\ out.by = "toolCallCancellation"
    /\ out.events = <<[type |-> "toolcallcancellation", data |-> <<>>]>>
    /\ status = "connected"

\* C27: a message that carries none of the six markers emits no notification
\* and no log, sets no timer and changes no field and no session; the
\* handler returns normally.
C27_UnmatchedMessageIgnored ==
    [][out'.op = "onmessage"
        => \A msg \in MessagesWide :
             (/\ ~msg.setupComplete
              /\ msg.goAway = <<>>
              /\ msg.sessionResumptionUpdate = <<>>
              /\ ~msg.toolCall
              /\ ~msg.toolCallCancellation
              /\ msg.serverContent = <<>>
              /\ OnMessage(msg))
             => /\ out'.events = <<>>
                /\ out'.logs = <<>>
                /\ out'.sched = <<>>
                /\ out'.opened = <<>>
                /\ out'.ret = "none"
                /\ UNCHANGED clientVars
                /\ UNCHANGED TransportVars]_vars

C27_Witness ==
    /\ out.op = "onmessage"
    /\ out.by = "unmatched"
    /\ status = "connected"

\* The number a timeLeft string stands for when it is a non-negative number,
\* and -1 when it is absent, empty, negative or not a number.
NonNegativeTimeLeft(timeLeft) ==
    CASE timeLeft = <<<<"5", "0", "0", "0">>>> -> 5000
      [] timeLeft = <<<<"5", "0", "0">>>> -> 500
      [] timeLeft = <<<<"0">>>> -> 0
      [] OTHER -> -1

\* C30: a GoAway warning sets one timer exactly when auto-reconnect is enabled
\* and timeLeft is present and a non-negative number, of
\* max(0, timeLeft - 1000) ms; for an absent, non-numeric or negative
\* timeLeft, or with auto-reconnect disabled, it sets none; and it changes
\* neither status, session, resumption handle nor attempt counter.
C30_GoAwaySchedule ==
    [][(out'.op = "onmessage" /\ out'.by = "goAway")
        => \A msg \in MessagesWide :
             (msg.goAway # <<>> /\ OnMessage(msg))
             => LET ms == NonNegativeTimeLeft(msg.goAway[1].timeLeft)
                IN /\ out'.sched =
                        IF autoReconnectEnabled /\ ms >= 0
                        THEN <<[kind |-> "goaway",
                                delay |-> IF ms > 1000 THEN ms - 1000 ELSE 0]>>
                        ELSE <<>>
                   /\ \A i \in 1..Len(out'.sched) : out'.sched[i].delay >= 0
                   /\ goAwayTimers' = goAwayTimers + Len(out'.sched)
                   /\ UNCHANGED <<status, session, resumptionHandle,
                                  reconnectAttempts>>]_vars

\* C31: server content that carries the interrupted field emits exactly one
\* interrupted notification and no other, also when the same message
\* carries turnComplete or a model turn.
C31_InterruptedAlone ==
    [][(out'.op = "onmessage" /\ out'.by = "serverContent")
        => \A msg \in MessagesWide :
             (/\ msg.serverContent # <<>>
              /\ msg.serverContent[1].interrupted
              /\ OnMessage(msg))
             => out'.events = <<[type |-> "interrupted", data |-> <<>>]>>]_vars

C31_Witness ==
    /\ out.op = "onmessage"
    /\ out.by = "serverContent"
    /\ out.events = <<[type |-> "interrupted", data |-> <<>>]>>

\* C32: in every reachable state a session is held exactly when status is
\* Connected.
C32_SessionIffConnected == (session # "null") <=> (status = "connected")

\* C33: the close callback of a session released by disconnect(), arriving
\* while a later connect is in flight or has succeeded, leaves status and
\* the session held as they are and schedules no reconnection.
C33_LateCloseIgnored ==
    [][(/\ out'.op = "onclose"
        /\ out'.by = "released"
        /\ status \in {"connecting", "connected"})
        => /\ status' = status
           /\ session' = session
           /\ out'.sched = <<>>
           /\ backoffTimers' = backoffTimers]_vars

\* C34: the attempt counter is always between 0 and maxReconnectAttempts; it
\* grows only by one, from below the maximum, in a handler that sets a
\* backoff timer, and it falls only to 0, when an open resolves or in
\* setAutoReconnect(false).
C34_AttemptCounterRange ==
    /\ [](reconnectAttempts \in 0..5)
    /\ [][(reconnectAttempts' > reconnectAttempts
            => (/\ reconnectAttempts' = reconnectAttempts + 1
                /\ reconnectAttempts < 5
                /\ Len(out'.sched) = 1
                /\ out'.sched[1].kind = "backoff"))
          /\ (reconnectAttempts' < reconnectAttempts
              => (/\ reconnectAttempts' = 0
                  /\ \/ out'.op = "connect.resolved"
                     \/ out'.op = "setAutoReconnect" /\ ~autoReconnectEnabled'))]_vars

C34_Witness ==
    /\ reconnectAttempts = 5
    /\ out.op = "onclose"
    /\ out.code # 1000
    /\ out.sched = <<>>

ChainAtRest ==
    /\ status = "disconnected"
    /\ backoffTimers = 0
    /\ OpeningCount = 0

\* C35: when the transport rejects every open a timer starts and the caller is
\* silent, a reconnection chain ends: the timer-driven connects happen one at
\* a time with the counter at 1, 2, .. 5, each rejection sets the next timer
\* while the counter is below 5, the fifth sets none, and from then on the
\* client is Disconnected with no timer pending, for good.
C35_ChainTerminates ==
    /\ ChainActive ~> [](ChainAtRest)
    /\ [][/\ (out'.op = "timer.backoff" /\ out'.opened # <<>>)
               => /\ reconnectAttempts \in 1..5
                  /\ backoffTimers = 1
                  /\ opening["backoff"] = 0
          /\ (out'.op = "connect.rejected" /\ out'.by = "backoff")
               => IF reconnectAttempts < 5
                  THEN /\ reconnectAttempts' = reconnectAttempts + 1
                       /\ backoffTimers' = 1
                  ELSE ChainAtRest']_vars

C35_Witness ==
    /\ out.op = "connect.rejected"
    /\ out.by = "backoff"
    /\ reconnectAttempts = 5
    /\ ChainAtRest

\* C36: with fair timers and a transport that serves an open before the
\* attempts run out, after the session held closes with a code other than
\* 1000 (auto-reconnect is enabled throughout) the client is again Connected
\* with the attempt counter at 0.
C36_RecoversAfterAbnormalClosure ==
    /\ [](autoReconnectEnabled)
    /\ (/\ out.op = "onclose"
        /\ out.by = "current"
        /\ out.code # 1000)
       ~> (status = "connected" /\ reconnectAttempts = 0)

C36_Witness ==
    /\ out.op = "connect.resolved"
    /\ out.by = "backoff"
    /\ status = "connected"
    /\ reconnectAttempts = 0
    /\ session = "held"
    /\ resumptionHandle # Null

\* C37: disconnect() while a connect is in flight and no session is held
\* returns false, leaves status Connecting and the open pending; when the
\* open resolves next, the client is Connected and holds a live session.
C37_DisconnectWhileConnecting ==
    [][/\ (out'.op = "disconnect" /\ status = "connecting" /\ session = "null")
            => /\ out'.ret = "false"
               /\ status' = "connecting"
               /\ session' = "null"
               /\ opening' = opening
               /\ OpeningCount > 0
       /\ (/\ out.op = "disconnect"
           /\ out.ret = "false"
           /\ status = "connecting"
           /\ out'.op = "connect.resolved")
            => /\ status' = "connected"
               /\ session' = "held"
               /\ LiveSessions' >= 1]_vars

C37_Witness ==
    /\ out.op = "disconnect"
    /\ out.ret = "false"
    /\ status = "connecting"
    /\ session = "null"

\* C38: while the caller calls connect only when no reconnection is under
\* way, at most one backoff timer is pending at any time.
C38_OneBackoffTimer == backoffTimers <= 1

\* C39: setAutoReconnect(false) leaves the flag false and the attempt counter
\* 0; setAutoReconnect(true) leaves the flag true and the counter as it was;
\* neither changes status, session, resumption handle, model or config, nor
\* sets or cancels a timer.
C39_SetAutoReconnectFrame ==
    [][out'.op = "setAutoReconnect"
        => /\ \A enabled \in BOOLEAN :
                SetAutoReconnect(enabled)
                => /\ autoReconnectEnabled' = enabled
                   /\ reconnectAttempts' = IF enabled THEN reconnectAttempts ELSE 0
           /\ out'.sched = <<>>
           /\ out'.opened = <<>>
           /\ UNCHANGED <<status, session, resumptionHandle, model, config>>
           /\ UNCHANGED TransportVars]_vars

C39_Witness ==
    /\ out.op = "setAutoReconnect"
    /\ autoReconnectEnabled
    /\ reconnectAttempts > 0
    /\ backoffTimers > 0

====
